---- MODULE Spec2Model ----
(***************************************************************************)
(* Model of ddns_updater.py: main(), TentenDDNSUpdater.run() and the flows *)
(* it drives (get_current_ip, init_browser, login, update_dns_record,      *)
(* cleanup, find_element, check_login_status,                              *)
(* wait_for_recaptcha_completion).                                         *)
(*                                                                         *)
(* The browser, the web site and the IP-echo services are the environment: *)
(* every awaited browser call either completes or raises, every HTTP       *)
(* request answers with a status and a body or raises RequestException.    *)
(* Strings the code inspects (URLs, response bodies, IPs) are sequences of *)
(* one-character strings, so that lower(), strip() and "in" are computed.  *)
(***************************************************************************)
EXTENDS Integers, Sequences, FiniteSets, TLC

\* ------------------------------------------------------------------------
\* Bounds of the model
\* ------------------------------------------------------------------------
\* longest response body an IP-echo service returns
MaxBodyLen == 2

\* ------------------------------------------------------------------------
\* Program constants
\* ------------------------------------------------------------------------
\* number of entries of the selector lists
NumUsernameSelectors == 5
NumPasswordSelectors == 3
NumSubmitSelectors == 6
NumErrorSelectors == 5
NumDomainSelectors == 2
NumConfigurationByIpSelectors == 3
NumIpInputSelectors == 2
NumSendSelectors == 2
\* number of entries of the services list of get_current_ip
NumServices == 3
\* run(): attempts = 3
attempts == 3
\* wait_for_recaptcha_completion(timeout = 30), in seconds
RecaptchaDefaultTimeout == 30
\* the poll sleeps random.uniform(0.5, 1.0) seconds: time is counted in
\* half seconds, a sleep lasts one or two of them
TicksPerSecond == 2
HttpOk == 200
HttpError == 500

\* Python's None, for an Optional[str] held as a sequence of characters
None == <<"None">>

\* ------------------------------------------------------------------------
\* Strings
\* ------------------------------------------------------------------------
UpperChars == <<"A","B","C","D","E","F","G","H","I","J","K","L","M",
                "N","O","P","Q","R","S","T","U","V","W","X","Y","Z">>
LowerChars == <<"a","b","c","d","e","f","g","h","i","j","k","l","m",
                "n","o","p","q","r","s","t","u","v","w","x","y","z">>

\* str.lower() on one character
LowerChar(c) ==
    IF \E i \in 1..Len(UpperChars) : UpperChars[i] = c
    THEN LowerChars[CHOOSE i \in 1..Len(UpperChars) : UpperChars[i] = c]
    ELSE c

\* str.lower()
Lower(s) == [i \in 1..Len(s) |-> LowerChar(s[i])]

\* needle in hay
IsSubstring(needle, hay) ==
    \E i \in 1..(Len(hay) - Len(needle) + 1) :
        SubSeq(hay, i, i + Len(needle) - 1) = needle

LoginWord == <<"l","o","g","i","n">>

\* "login" not in url.lower()   (login line 238, check_login_status line 164)
NotOnLoginPageInverted(u) == IsSubstring(LoginWord, Lower(u))
NotOnLoginPage(u) == ~IsSubstring(LoginWord, Lower(u))

Whitespace == {" ", "\n"}

RECURSIVE LStrip(_)
LStrip(s) ==
    IF s = <<>> THEN s
    ELSE IF Head(s) \in Whitespace THEN LStrip(Tail(s)) ELSE s

RECURSIVE RStrip(_)
RStrip(s) ==
    IF s = <<>> THEN s
    ELSE IF s[Len(s)] \in Whitespace THEN RStrip(SubSeq(s, 1, Len(s) - 1)) ELSE s

\* str.strip()
StripLeftOnly(s) == LStrip(s)
Strip(s) == RStrip(LStrip(s))

\* ------------------------------------------------------------------------
\* Inputs and environment
\* ------------------------------------------------------------------------
DNS_SETTINGS_URL == <<"/","A","p","i","D","n","s">>

\* locations the site can leave the page on after a navigation
Urls == { DNS_SETTINGS_URL,
          <<"/","l","o","g","i","n">>,
          <<"/","L","o","g","I","n">>,
          <<"/","l","o","g","o","n">> }

BodyChars == {"1", " ", "\n"}
Bodies == UNION { [1..n -> BodyChars] : n \in 0..MaxBodyLen }

\* what one requests.get(service, timeout=10) does
Responses ==
    { [kind |-> "RequestException", status |-> 0, body |-> <<>>] }
    \cup { [kind |-> "response", status |-> HttpError, body |-> <<"1", "\n">>] }
    \cup { [kind |-> "response", status |-> HttpOk, body |-> b] : b \in Bodies }

\* values of --ip
SuppliedIps == { <<"9">> }

\* command lines: rejected by argparse, --help, or accepted with args.ip
CmdLines ==
    { [kind |-> "error", ip |-> None], [kind |-> "help", ip |-> None] }
    \cup { [kind |-> "ok", ip |-> i] : i \in SuppliedIps \cup {None} }

\* the configuration file found at args.config
ConfigFiles == { "missing", "malformed", "badLogLevel",
                 "noCredentials", "noDomainSettings", "full" }

\* what the scope does for one selector of find_element:
\*   absent      query_selector returns None
\*   element     query_selector returns an element and line 155 completes
\*   queryError  query_selector raises
\*   focusError  query_selector returns an element, line 155 raises
SelectorOutcomes == { "absent", "element", "queryError", "focusError" }
Scopes(n) == [1..n -> SelectorOutcomes]

\* what page.wait_for_selector(selector, timeout=1000) does for one of the
\* domain selectors of update_dns_record
ProbeOutcomes == { "record", "nothing", "timeout" }

\* ------------------------------------------------------------------------
\* find_element
\* ------------------------------------------------------------------------
\* the element returned is named by the index of the selector that found
\* it; 0 is None
RECURSIVE FindLast(_, _, _)
FindLast(i, n, scope) ==
    IF i < 1 THEN 0
    ELSE IF scope[i] = "element" THEN i
    ELSE FindLast(i - 1, n, scope)

RECURSIVE FindFrom(_, _, _)
FindFrom(i, n, scope) ==
    IF i > n THEN 0
    ELSE IF scope[i] = "element" THEN i
    ELSE FindFrom(i + 1, n, scope)

find_element_last(n, scope) == FindLast(n, n, scope)
find_element(n, scope) == FindFrom(1, n, scope)

\* ------------------------------------------------------------------------
\* State
\* ------------------------------------------------------------------------
VARIABLES
    pc,          \* position of the single flow of control
    cmdline,     \* sys.argv as argparse sees it
    configFile,  \* the configuration file
    target_ip,   \* run(): target_ip
    playwright,  \* hasattr(self, 'playwright')
    browser,     \* self.browser is not None
    page,        \* self.page is not None
    calls,       \* methods run() has invoked so far, in order
    svcIdx,      \* get_current_ip: index of the service of the for loop
    svcLog,      \* get_current_ip: outcome of each request made
    ipRet,       \* get_current_ip: value returned
    retries,     \* run(): retries
    success,     \* run(): success
    url,         \* self.page.url
    loginLog,    \* page actions of the current login() call, in order
    loginRet,    \* value returned by the last login() call
    pollElapsed, \* wait_for_recaptcha_completion: time() - start_time
    pollRet,     \* value returned by wait_for_recaptcha_completion
    fe,          \* last find_element call: selectors, scope, result
    probe,       \* update_dns_record: what the page does for each domain selector
    updLog,      \* page actions of update_dns_record, in order
    updRet,      \* value returned by update_dns_record
    filledIp,    \* text put into the IP input
    cleanLog,    \* release steps attempted by cleanup(), with outcome
    runResult,   \* value returned by run()
    failedReported, \* run() logged "Login failed"
    exitCode     \* process exit status

vars == << pc, cmdline, configFile, target_ip, playwright, browser, page,
           calls, svcIdx, svcLog, ipRet, retries, success, url, loginLog,
           loginRet, pollElapsed, pollRet, fe, probe, updLog, updRet,
           filledIp, cleanLog, runResult, failedReported, exitCode >>

\* groups of variables, for UNCHANGED
envVars == << cmdline, configFile >>
handleVars == << playwright, browser, page >>
ipVars == << svcIdx, svcLog, ipRet >>
loginVars == << loginLog, loginRet, pollElapsed, pollRet >>
updVars == << probe, updLog, updRet, filledIp >>
endVars == << cleanLog, runResult, failedReported, exitCode >>

NoFind == [sels |-> "none", n |-> 0, scope |-> <<>>, result |-> 0]
NoExit == -1

Count(log, what) == Cardinality({ i \in 1..Len(log) : log[i] = what })

Init ==
    /\ pc = "main"
    /\ cmdline \in CmdLines
    /\ configFile \in ConfigFiles
    /\ target_ip = None
    /\ playwright = FALSE
    /\ browser = FALSE
    /\ page = FALSE
    /\ calls = <<>>
    /\ svcIdx = 0
    /\ svcLog = <<>>
    /\ ipRet = None
    /\ retries = 0
    /\ success = FALSE
    /\ url = <<>>
    /\ loginLog = <<>>
    /\ loginRet = "none"
    /\ pollElapsed = 0
    /\ pollRet = "none"
    /\ fe = NoFind
    /\ probe = <<>>
    /\ updLog = <<>>
    /\ updRet = "none"
    /\ filledIp = None
    /\ cleanLog = <<>>
    /\ runResult = "none"
    /\ failedReported = FALSE
    /\ exitCode = NoExit

\* ------------------------------------------------------------------------
\* main(): command line and construction
\* ------------------------------------------------------------------------
\* sys.exit(0 if success else 1)
ExitCodeAlwaysZero(result) == 0
ExitCode(result) == IF result = "True" THEN 0 ELSE 1

\* parser.parse_args(): argparse leaves with 2 on a rejected command line
\* and with 0 after printing the help
ParseArgs ==
    /\ pc = "main"
    /\ CASE cmdline.kind = "error" -> pc' = "exited" /\ exitCode' = 2
         [] cmdline.kind = "help"  -> pc' = "exited" /\ exitCode' = 0
         [] OTHER                  -> pc' = "construct" /\ exitCode' = exitCode
    /\ UNCHANGED << cmdline, configFile, target_ip, playwright, browser, page,
                    calls, svcIdx, svcLog, ipRet, retries, success, url,
                    loginLog, loginRet, pollElapsed, pollRet, fe, updVars, cleanLog, runResult, failedReported >>

\* TentenDDNSUpdater(args.config): load_config and setup_logging raise for a
\* missing file, malformed JSON or an unknown logging level; main's handlers
\* leave with 1
Construct ==
    /\ pc = "construct"
    /\ IF configFile \in {"missing", "malformed", "badLogLevel"}
       THEN pc' = "exited" /\ exitCode' = 1
       ELSE pc' = "run" /\ exitCode' = exitCode
    /\ UNCHANGED << cmdline, configFile, target_ip, playwright, browser, page,
                    calls, svcIdx, svcLog, ipRet, retries, success, url,
                    loginLog, loginRet, pollElapsed, pollRet, fe, updVars, cleanLog, runResult, failedReported >>

\* ------------------------------------------------------------------------
\* run(): target IP
\* ------------------------------------------------------------------------
\* run(args.ip): if target_ip is None: target_ip = await get_current_ip()
RunStartAlwaysResolve ==
    /\ pc = "run"
    /\ target_ip' = cmdline.ip
    /\ pc' = "get_ip"
    /\ calls' = Append(calls, "get_current_ip")
    /\ svcIdx' = 1
    /\ UNCHANGED << cmdline, configFile, playwright, browser, page, svcLog,
                    ipRet, retries, success, url, loginLog, loginRet,
                    pollElapsed, pollRet, fe, updVars,
                    cleanLog, runResult, failedReported, exitCode >>
RunStart ==
    /\ pc = "run"
    /\ target_ip' = cmdline.ip
    /\ IF cmdline.ip = None
       THEN /\ pc' = "get_ip"
            /\ calls' = Append(calls, "get_current_ip")
            /\ svcIdx' = 1
       ELSE /\ pc' = "init_browser"
            /\ UNCHANGED << calls, svcIdx >>
    /\ UNCHANGED << cmdline, configFile, playwright, browser, page, svcLog,
                    ipRet, retries, success, url, loginLog, loginRet,
                    pollElapsed, pollRet, fe, updVars,
                    cleanLog, runResult, failedReported, exitCode >>

\* one iteration of "for service in services"
GetIpRequest ==
    /\ pc = "get_ip"
    /\ svcIdx <= NumServices
    /\ \E resp \in Responses :
         /\ svcLog' = Append(svcLog, resp)
         /\ IF resp.kind = "response" /\ resp.status = HttpOk
            THEN /\ ipRet' = Strip(resp.body)
                 /\ pc' = "get_ip_return"
                 /\ svcIdx' = svcIdx
            ELSE /\ svcIdx' = svcIdx + 1
                 /\ UNCHANGED << ipRet, pc >>
    /\ UNCHANGED << cmdline, configFile, target_ip, playwright, browser, page,
                    calls, retries, success, url, loginLog, loginRet,
                    pollElapsed, pollRet, fe, updVars,
                    cleanLog, runResult, failedReported, exitCode >>

\* the for loop ran out: raise Exception("Could not determine public IP
\* address"), logged and re-raised to run()
GetIpFailRetryForever ==
    /\ pc = "get_ip"
    /\ svcIdx > NumServices
    /\ svcIdx' = 1
    /\ svcLog' = <<>>
    /\ UNCHANGED << pc, envVars, handleVars, loginVars, updVars, endVars,
                    target_ip, calls, ipRet, retries, success, url, fe >>
GetIpFail ==
    /\ pc = "get_ip"
    /\ svcIdx > NumServices
    /\ pc' = "run_raised"
    /\ UNCHANGED << envVars, handleVars, ipVars, loginVars, updVars, endVars,
                    target_ip, calls, retries, success, url, fe >>

\* target_ip = <value returned>; the frame of get_current_ip is gone
RunReceiveIp ==
    /\ pc = "get_ip_return"
    /\ target_ip' = ipRet
    /\ svcLog' = <<>>
    /\ svcIdx' = 0
    /\ pc' = "init_browser"
    /\ UNCHANGED << cmdline, configFile, playwright, browser, page, calls,
                    ipRet, retries, success, url, loginLog, loginRet,
                    pollElapsed, pollRet, fe, updVars,
                    cleanLog, runResult, failedReported, exitCode >>

\* ------------------------------------------------------------------------
\* init_browser
\* ------------------------------------------------------------------------
\* self.playwright = await async_playwright().start()
InitStartEngine ==
    /\ pc = "init_browser"
    /\ calls' = Append(calls, "init_browser")
    /\ \E ok \in BOOLEAN :
         IF ok THEN playwright' = TRUE /\ pc' = "init_launch"
               ELSE playwright' = playwright /\ pc' = "run_raised"
    /\ UNCHANGED << cmdline, configFile, target_ip, browser, page, svcIdx,
                    svcLog, ipRet, retries, success, url, loginLog, loginRet,
                    pollElapsed, pollRet, fe, updVars,
                    cleanLog, runResult, failedReported, exitCode >>

\* self.browser = await self.playwright.chromium.launch_persistent_context(..)
InitLaunchContext ==
    /\ pc = "init_launch"
    /\ \E ok \in BOOLEAN :
         IF ok THEN browser' = TRUE /\ pc' = "init_page"
               ELSE browser' = browser /\ pc' = "run_raised"
    /\ UNCHANGED << cmdline, configFile, target_ip, playwright, page, calls,
                    svcIdx, svcLog, ipRet, retries, success, url, loginLog,
                    loginRet, pollElapsed, pollRet, fe, updVars, cleanLog, runResult, failedReported, exitCode >>

\* self.page = pages[0] or await new_page(); self.page.set_default_timeout(..)
InitPage ==
    /\ pc = "init_page"
    /\ \E outcome \in {"ok", "newPageRaises", "setTimeoutRaises"} :
         /\ page' = (outcome # "newPageRaises")
         /\ pc' = IF outcome = "ok" THEN "login_call" ELSE "run_raised"
    /\ UNCHANGED << cmdline, configFile, target_ip, playwright, browser,
                    calls, svcIdx, svcLog, ipRet, retries, success, url,
                    loginLog, loginRet, pollElapsed, pollRet, fe, updVars, cleanLog, runResult, failedReported,
                    exitCode >>

\* ------------------------------------------------------------------------
\* login
\* ------------------------------------------------------------------------
\* the record of one find_element(selectors) call on the page; it lasts
\* until the caller's next page action, the scope being the page as it was
\* when the selectors were queried
Find(name, n, scope) ==
    [sels |-> name, n |-> n, scope |-> scope, result |-> find_element(n, scope)]

\* success = await self.login()   (run lines 370 and 375)
LoginCall ==
    /\ pc = "login_call"
    /\ calls' = Append(calls, "login")
    /\ loginLog' = <<>>
    /\ pollRet' = "none"
    /\ pc' = "login_idle"
    /\ UNCHANGED << envVars, handleVars, ipVars, updVars, endVars, target_ip,
                    retries, success, url, fe, loginRet, pollElapsed >>

\* line 229: wait_for_load_state('networkidle'); a timeout is caught at
\* line 282 and login returns False
LoginWaitIdleRaisesToRun ==
    /\ pc = "login_idle"
    /\ \E ok \in BOOLEAN :
         pc' = IF ok THEN "login_creds" ELSE "run_raised"
    /\ UNCHANGED << envVars, handleVars, ipVars, updVars, endVars, target_ip,
                    calls, retries, success, url, fe, loginLog, loginRet,
                    pollElapsed, pollRet >>
LoginWaitIdle ==
    /\ pc = "login_idle"
    /\ \E ok \in BOOLEAN :
         IF ok THEN pc' = "login_creds" /\ loginRet' = loginRet
               ELSE pc' = "login_ret" /\ loginRet' = "False"
    /\ UNCHANGED << envVars, handleVars, ipVars, updVars, endVars, target_ip,
                    calls, retries, success, url, fe, loginLog, pollElapsed,
                    pollRet >>

\* lines 230-232: self.config["credentials"]["username"/"password"]
LoginCredentials ==
    /\ pc = "login_creds"
    /\ IF configFile = "noCredentials"
       THEN pc' = "login_ret" /\ loginRet' = "False"
       ELSE pc' = "login_goto" /\ loginRet' = loginRet
    /\ UNCHANGED << envVars, handleVars, ipVars, updVars, endVars, target_ip,
                    calls, retries, success, url, fe, loginLog, pollElapsed,
                    pollRet >>

\* lines 235-240: goto(DNS_SETTINGS_URL), then the already-logged-in check
LoginGoto ==
    /\ pc = "login_goto"
    /\ \/ /\ pc' = "login_ret"
          /\ loginRet' = "False"
          /\ UNCHANGED << url, loginLog >>
       \/ \E u \in Urls :
            /\ url' = u
            /\ loginLog' = Append(loginLog, "goto")
            /\ IF NotOnLoginPage(u)
               THEN pc' = "login_ret" /\ loginRet' = "True"
               ELSE pc' = "login_wait_selector" /\ loginRet' = loginRet
    /\ UNCHANGED << envVars, handleVars, ipVars, updVars, endVars, target_ip,
                    calls, retries, success, fe, pollElapsed, pollRet >>

\* line 243: wait_for_selector(username field, timeout=LOGIN_TIMEOUT)
LoginWaitSelector ==
    /\ pc = "login_wait_selector"
    /\ \E ok \in BOOLEAN :
         IF ok THEN pc' = "login_find_username" /\ loginRet' = loginRet
               ELSE pc' = "login_ret" /\ loginRet' = "False"
    /\ UNCHANGED << envVars, handleVars, ipVars, updVars, endVars, target_ip,
                    calls, retries, success, url, fe, loginLog, pollElapsed,
                    pollRet >>

\* lines 247-249: find_element(USERNAME_SELECTORS), raise when None
LoginFindUsername ==
    /\ pc = "login_find_username"
    /\ \E scope \in Scopes(NumUsernameSelectors) :
         /\ fe' = Find("USERNAME_SELECTORS", NumUsernameSelectors, scope)
         /\ IF fe'.result = 0
            THEN pc' = "login_ret" /\ loginRet' = "False"
            ELSE pc' = "login_fill_username" /\ loginRet' = loginRet
    /\ UNCHANGED << envVars, handleVars, ipVars, updVars, endVars, target_ip,
                    calls, retries, success, url, loginLog, pollElapsed,
                    pollRet >>

\* lines 250-252: username_field.fill(username); wait_for_timeout(1000)
LoginFillUsername ==
    /\ pc = "login_fill_username"
    /\ \E outcome \in {"ok", "fillRaises", "waitRaises"} :
         /\ loginLog' = IF outcome = "fillRaises" THEN loginLog
                        ELSE Append(loginLog, "fill_username")
         /\ IF outcome = "ok"
            THEN pc' = "login_find_password" /\ loginRet' = loginRet
            ELSE pc' = "login_ret" /\ loginRet' = "False"
    /\ fe' = NoFind
    /\ UNCHANGED << envVars, handleVars, ipVars, updVars, endVars, target_ip,
                    calls, retries, success, url, pollElapsed, pollRet >>

\* lines 255-257: find_element(PASSWORD_SELECTORS), raise when None
LoginFindPassword ==
    /\ pc = "login_find_password"
    /\ \E scope \in Scopes(NumPasswordSelectors) :
         /\ fe' = Find("PASSWORD_SELECTORS", NumPasswordSelectors, scope)
         /\ IF fe'.result = 0
            THEN pc' = "login_ret" /\ loginRet' = "False"
            ELSE pc' = "login_fill_password" /\ loginRet' = loginRet
    /\ UNCHANGED << envVars, handleVars, ipVars, updVars, endVars, target_ip,
                    calls, retries, success, url, loginLog, pollElapsed,
                    pollRet >>

\* lines 258-260: password_field.fill(password); wait_for_timeout(1000)
LoginFillPassword ==
    /\ pc = "login_fill_password"
    /\ \E outcome \in {"ok", "fillRaises", "waitRaises"} :
         /\ loginLog' = IF outcome = "fillRaises" THEN loginLog
                        ELSE Append(loginLog, "fill_password")
         /\ IF outcome = "ok"
            THEN pc' = "login_find_submit" /\ loginRet' = loginRet
            ELSE pc' = "login_ret" /\ loginRet' = "False"
    /\ fe' = NoFind
    /\ UNCHANGED << envVars, handleVars, ipVars, updVars, endVars, target_ip,
                    calls, retries, success, url, pollElapsed, pollRet >>

\* lines 263-265: find_element(SUBMIT_SELECTORS), raise when None
LoginFindSubmit ==
    /\ pc = "login_find_submit"
    /\ \E scope \in Scopes(NumSubmitSelectors) :
         /\ fe' = Find("SUBMIT_SELECTORS", NumSubmitSelectors, scope)
         /\ IF fe'.result = 0
            THEN pc' = "login_ret" /\ loginRet' = "False"
            ELSE pc' = "login_pre_idle" /\ loginRet' = loginRet
    /\ UNCHANGED << envVars, handleVars, ipVars, updVars, endVars, target_ip,
                    calls, retries, success, url, loginLog, pollElapsed,
                    pollRet >>

\* line 267: wait_for_load_state('networkidle')
LoginPreSubmitIdle ==
    /\ pc = "login_pre_idle"
    /\ \E ok \in BOOLEAN :
         IF ok THEN /\ pc' = "login_pre_delay"
                    /\ loginLog' = Append(loginLog, "network_idle")
                    /\ loginRet' = loginRet
               ELSE /\ pc' = "login_ret"
                    /\ loginRet' = "False"
                    /\ loginLog' = loginLog
    /\ fe' = NoFind
    /\ UNCHANGED << envVars, handleVars, ipVars, updVars, endVars, target_ip,
                    calls, retries, success, url, pollElapsed, pollRet >>

\* line 268: wait_for_timeout(5000); line 269 enters the poll, which reads
\* start_time
LoginPreSubmitDelay ==
    /\ pc = "login_pre_delay"
    /\ \E ok \in BOOLEAN :
         IF ok THEN /\ pc' = "login_poll"
                    /\ loginLog' = Append(loginLog, "delay")
                    /\ pollElapsed' = 0
                    /\ pollRet' = "none"
                    /\ loginRet' = loginRet
               ELSE /\ pc' = "login_ret"
                    /\ loginRet' = "False"
                    /\ UNCHANGED << loginLog, pollElapsed, pollRet >>
    /\ UNCHANGED << envVars, handleVars, ipVars, updVars, endVars, target_ip,
                    calls, retries, success, url, fe >>

\* while time() - start_time < timeout
PollNeverExpires(elapsed) == TRUE
PollWithinBound(elapsed) == elapsed < RecaptchaDefaultTimeout * TicksPerSecond

\* one iteration of the poll (lines 180-222): page.evaluate answers
\* completed, answers not completed and the poll sleeps, or raises
PollIterate ==
    /\ pc = "login_poll"
    /\ PollWithinBound(pollElapsed)
    /\ \/ /\ pollRet' = "True"
          /\ loginLog' = Append(loginLog, "poll")
          /\ pc' = "login_click"
          /\ UNCHANGED << pollElapsed, loginRet >>
       \/ \E sleep \in 1..TicksPerSecond :
            /\ pollElapsed' = pollElapsed + sleep
            /\ UNCHANGED << pollRet, loginLog, pc, loginRet >>
       \/ /\ pc' = "login_ret"
          /\ loginRet' = "False"
          /\ pollElapsed' = 0
          /\ UNCHANGED << pollRet, loginLog >>
    /\ UNCHANGED << envVars, handleVars, ipVars, updVars, endVars, target_ip,
                    calls, retries, success, url, fe >>

\* the bound is reached: line 224 returns False, which login ignores
PollTimeout ==
    /\ pc = "login_poll"
    /\ ~PollWithinBound(pollElapsed)
    /\ pollRet' = "False"
    /\ loginLog' = Append(loginLog, "poll")
    /\ pc' = "login_click"
    /\ UNCHANGED << envVars, handleVars, ipVars, updVars, endVars, target_ip,
                    calls, retries, success, url, fe, loginRet, pollElapsed >>

\* line 270: submit_btn.click(); the site takes the page to a new location
\* (the frame of wait_for_recaptcha_completion is gone)
LoginClickSubmit ==
    /\ pc = "login_click"
    /\ pollElapsed' = 0
    /\ \/ /\ pc' = "login_ret"
          /\ loginRet' = "False"
          /\ UNCHANGED << url, loginLog >>
       \/ \E u \in Urls :
            /\ url' = u
            /\ loginLog' = Append(loginLog, "click_submit")
            /\ pc' = "login_wait_navigation"
            /\ loginRet' = loginRet
    /\ UNCHANGED << envVars, handleVars, ipVars, updVars, endVars, target_ip,
                    calls, retries, success, fe, pollRet >>

\* line 273: wait_for_load_state("networkidle", timeout=LOGIN_TIMEOUT)
LoginWaitNavigation ==
    /\ pc = "login_wait_navigation"
    /\ \E ok \in BOOLEAN :
         IF ok THEN pc' = "login_check_status" /\ loginRet' = loginRet
               ELSE pc' = "login_ret" /\ loginRet' = "False"
    /\ UNCHANGED << envVars, handleVars, ipVars, updVars, endVars, target_ip,
                    calls, retries, success, url, fe, loginLog, pollElapsed,
                    pollRet >>

\* lines 274-275 with check_login_status (161-174): True when the URL has no
\* "login"; otherwise the error element is looked up and the result is False
\* (also when inner_text raises, through line 282)
LoginCheckStatusNoErrorIsSuccess ==
    /\ pc = "login_check_status"
    /\ IF NotOnLoginPage(url)
       THEN /\ pc' = "login_goto_back"
            /\ UNCHANGED << fe, loginRet >>
       ELSE \E scope \in Scopes(NumErrorSelectors) :
              /\ fe' = Find("ERROR_SELECTORS", NumErrorSelectors, scope)
              /\ pc' = IF fe'.result = 0 THEN "login_goto_back"
                       ELSE "login_ret"
              /\ loginRet' = IF fe'.result = 0 THEN loginRet ELSE "False"
    /\ UNCHANGED << envVars, handleVars, ipVars, updVars, endVars, target_ip,
                    calls, retries, success, url, loginLog, pollElapsed,
                    pollRet >>
LoginCheckStatus ==
    /\ pc = "login_check_status"
    /\ IF NotOnLoginPage(url)
       THEN /\ pc' = "login_goto_back"
            /\ UNCHANGED << fe, loginRet >>
       ELSE \E scope \in Scopes(NumErrorSelectors) :
              /\ fe' = Find("ERROR_SELECTORS", NumErrorSelectors, scope)
              /\ pc' = "login_ret"
              /\ loginRet' = "False"
    /\ UNCHANGED << envVars, handleVars, ipVars, updVars, endVars, target_ip,
                    calls, retries, success, url, loginLog, pollElapsed,
                    pollRet >>

\* lines 277-280: goto(DNS_SETTINGS_URL); wait_for_load_state; return True
LoginGotoBack ==
    /\ pc = "login_goto_back"
    /\ \/ /\ pc' = "login_ret"
          /\ loginRet' = "False"
          /\ UNCHANGED << url, loginLog >>
       \/ \E u \in Urls, idle \in BOOLEAN :
            /\ url' = u
            /\ loginLog' = Append(loginLog, "goto_settings")
            /\ pc' = "login_ret"
            /\ loginRet' = IF idle THEN "True" ELSE "False"
    /\ UNCHANGED << envVars, handleVars, ipVars, updVars, endVars, target_ip,
                    calls, retries, success, fe, pollElapsed, pollRet >>

\* ------------------------------------------------------------------------
\* run(): the login loop
\* ------------------------------------------------------------------------
\* while not success and retries < attempts
RetryLoginIgnoringSuccess(ok, n) == n < attempts
RetryLogin(ok, n) == ~ok /\ n < attempts

\* lines 370-387: success = <login result>; the loop calls login again, or
\* the update flow starts, or "Login failed" is logged and run returns False
RunAfterLoginAlwaysUpdate ==
    /\ pc = "login_ret"
    /\ success' = (loginRet = "True")
    /\ fe' = NoFind
    /\ pc' = "update_call"
    /\ UNCHANGED << envVars, handleVars, ipVars, loginVars, updVars,
                    target_ip, calls, url, retries, endVars >>
RunAfterLogin ==
    /\ pc = "login_ret"
    /\ success' = (loginRet = "True")
    /\ fe' = NoFind
    /\ IF RetryLogin(success', retries)
       THEN /\ retries' = retries + 1
            /\ pc' = "login_call"
            /\ UNCHANGED << runResult, failedReported >>
       ELSE IF success'
       THEN /\ pc' = "update_call"
            /\ UNCHANGED << retries, runResult, failedReported >>
       ELSE /\ failedReported' = TRUE
            /\ runResult' = "False"
            /\ pc' = "cleanup"
            /\ UNCHANGED retries
    /\ UNCHANGED << envVars, handleVars, ipVars, loginVars, updVars,
                    target_ip, calls, url, cleanLog, exitCode >>

\* ------------------------------------------------------------------------
\* update_dns_record
\* ------------------------------------------------------------------------
\* whether the probe of lines 302-310 found a row or cell: the loop breaks at the first record, a
\* timeout of wait_for_selector is swallowed by "except: continue"
RECURSIVE ProbeFrom(_, _)
ProbeFrom(i, p) ==
    IF i > NumDomainSelectors THEN FALSE
    ELSE IF p[i] = "record" THEN TRUE
    ELSE ProbeFrom(i + 1, p)

is_exiting_domain_never(p) == FALSE
is_exiting_domain(p) == ProbeFrom(1, p)

\* success = await self.update_dns_record(target_ip)   (run line 378)
UpdateCall ==
    /\ pc = "update_call"
    /\ calls' = Append(calls, "update_dns_record")
    /\ updLog' = <<>>
    /\ pc' = "update_prepare"
    /\ UNCHANGED << probe, envVars, handleVars, ipVars, loginVars, endVars,
                    target_ip, retries, success, url, fe, updRet, filledIp >>

\* lines 289-294: two network-idle waits around the read of
\* config["domain_settings"]["configuration_by_ip_btn_text"]
UpdatePrepare ==
    /\ pc = "update_prepare"
    /\ \E ok \in BOOLEAN :
         IF ok /\ configFile # "noDomainSettings"
         THEN pc' = "update_probe" /\ updRet' = updRet
         ELSE pc' = "update_ret" /\ updRet' = "False"
    /\ UNCHANGED << probe, envVars, handleVars, ipVars, loginVars, endVars,
                    target_ip, calls, retries, success, url, fe, updLog,
                    filledIp >>

\* lines 297-311 and 341-343: probe for a row or cell with the IP
UpdateProbe ==
    /\ pc = "update_probe"
    /\ \E p \in [1..NumDomainSelectors -> ProbeOutcomes] :
         /\ probe' = p
         /\ updLog' = Append(updLog, "probe")
         /\ IF is_exiting_domain(p)
            THEN pc' = "update_ret" /\ updRet' = "True"
            ELSE pc' = "update_find_configure" /\ updRet' = updRet
    /\ UNCHANGED << envVars, handleVars, ipVars, loginVars, endVars,
                    target_ip, calls, retries, success, url, fe, filledIp >>

\* lines 313-321: find_element(configuration_by_ip_selectors)
UpdateFindConfigureSkipCheck ==
    /\ pc = "update_find_configure"
    /\ \E scope \in Scopes(NumConfigurationByIpSelectors) :
         /\ fe' = Find("configuration_by_ip_selectors",
                       NumConfigurationByIpSelectors, scope)
         /\ updLog' = Append(updLog, "find_configure")
         /\ pc' = "update_click_configure"
         /\ updRet' = updRet
    /\ UNCHANGED << probe, envVars, handleVars, ipVars, loginVars, endVars,
                    target_ip, calls, retries, success, url, filledIp >>
UpdateFindConfigure ==
    /\ pc = "update_find_configure"
    /\ \E scope \in Scopes(NumConfigurationByIpSelectors) :
         /\ fe' = Find("configuration_by_ip_selectors",
                       NumConfigurationByIpSelectors, scope)
         /\ updLog' = Append(updLog, "find_configure")
         /\ IF fe'.result = 0
            THEN pc' = "update_ret" /\ updRet' = "False"
            ELSE pc' = "update_click_configure" /\ updRet' = updRet
    /\ UNCHANGED << probe, envVars, handleVars, ipVars, loginVars, endVars,
                    target_ip, calls, retries, success, url, filledIp >>

\* lines 324-325: configuration_by_ip_btn.click(); wait_for_timeout(1000)
UpdateClickConfigure ==
    /\ pc = "update_click_configure"
    /\ \E outcome \in {"ok", "clickRaises", "waitRaises"} :
         /\ updLog' = IF outcome = "clickRaises" THEN updLog
                      ELSE Append(updLog, "click_configure")
         /\ IF outcome = "ok"
            THEN pc' = "update_find_ip" /\ updRet' = updRet
            ELSE pc' = "update_ret" /\ updRet' = "False"
    /\ fe' = NoFind
    /\ UNCHANGED << probe, envVars, handleVars, ipVars, loginVars, endVars,
                    target_ip, calls, retries, success, url, filledIp >>

\* lines 326-329: find_element(['#ip', 'input[type="text"]'])
UpdateFindIpInput ==
    /\ pc = "update_find_ip"
    /\ \E scope \in Scopes(NumIpInputSelectors) :
         /\ fe' = Find("ip_input", NumIpInputSelectors, scope)
         /\ IF fe'.result = 0
            THEN /\ pc' = "update_ret"
                 /\ updRet' = "False"
                 /\ updLog' = updLog
            ELSE /\ pc' = "update_fill_ip"
                 /\ updRet' = updRet
                 /\ updLog' = Append(updLog, "found_ip_input")
    /\ UNCHANGED << probe, envVars, handleVars, ipVars, loginVars, endVars,
                    target_ip, calls, retries, success, url, filledIp >>

\* line 330: ip_input.fill(new_ip)
UpdateFillIp ==
    /\ pc = "update_fill_ip"
    /\ \E ok \in BOOLEAN :
         IF ok THEN /\ filledIp' = target_ip
                    /\ updLog' = Append(updLog, "fill_ip")
                    /\ pc' = "update_find_send"
                    /\ updRet' = updRet
               ELSE /\ pc' = "update_ret"
                    /\ updRet' = "False"
                    /\ UNCHANGED << filledIp, updLog >>
    /\ fe' = NoFind
    /\ UNCHANGED << probe, envVars, handleVars, ipVars, loginVars, endVars,
                    target_ip, calls, retries, success, url >>

\* lines 331-334: find_element(['#send', 'button[type="submit"]'])
UpdateFindSendSkipCheck ==
    /\ pc = "update_find_send"
    /\ \E scope \in Scopes(NumSendSelectors) :
         /\ fe' = Find("send", NumSendSelectors, scope)
         /\ pc' = "update_click_send"
         /\ updRet' = updRet
         /\ updLog' = Append(updLog, "found_send")
    /\ UNCHANGED << probe, envVars, handleVars, ipVars, loginVars, endVars,
                    target_ip, calls, retries, success, url, filledIp >>
UpdateFindSend ==
    /\ pc = "update_find_send"
    /\ \E scope \in Scopes(NumSendSelectors) :
         /\ fe' = Find("send", NumSendSelectors, scope)
         /\ IF fe'.result = 0
            THEN /\ pc' = "update_ret"
                 /\ updRet' = "False"
                 /\ updLog' = updLog
            ELSE /\ pc' = "update_click_send"
                 /\ updRet' = updRet
                 /\ updLog' = Append(updLog, "found_send")
    /\ UNCHANGED << probe, envVars, handleVars, ipVars, loginVars, endVars,
                    target_ip, calls, retries, success, url, filledIp >>

\* lines 335-340: submit_btn.click(); network-idle wait; settle delay
\* ("settled" is logged when both waits completed)
UpdateClickSend ==
    /\ pc = "update_click_send"
    /\ \E outcome \in {"ok", "clickRaises", "waitRaises"} :
         /\ updLog' = CASE outcome = "clickRaises" -> updLog
                        [] outcome = "waitRaises" ->
                               Append(updLog, "click_submit")
                        [] OTHER ->
                               updLog \o <<"click_submit", "settled">>
         /\ updRet' = IF outcome = "ok" THEN "True" ELSE "False"
         /\ pc' = "update_ret"
    /\ fe' = NoFind
    /\ UNCHANGED << probe, envVars, handleVars, ipVars, loginVars, endVars,
                    target_ip, calls, retries, success, url, filledIp >>

\* run lines 378-384: success = <update result>; return it
RunAfterUpdateRetryOnce ==
    /\ pc = "update_ret"
    /\ success' = (updRet = "True")
    /\ fe' = NoFind
    /\ probe' = <<>>
    /\ IF updRet = "False" /\ Count(calls, "update_dns_record") < 2
       THEN pc' = "update_call" /\ runResult' = runResult
       ELSE pc' = "cleanup" /\ runResult' = updRet
    /\ UNCHANGED << envVars, handleVars, ipVars, loginVars, updLog, updRet,
                    filledIp, target_ip, calls, retries, url, cleanLog,
                    failedReported, exitCode >>
RunAfterUpdate ==
    /\ pc = "update_ret"
    /\ success' = (updRet = "True")
    /\ runResult' = updRet
    /\ fe' = NoFind
    /\ probe' = <<>>
    /\ pc' = "cleanup"
    /\ UNCHANGED << envVars, handleVars, ipVars, loginVars, updLog, updRet, filledIp,
                    target_ip, calls, retries, url, cleanLog, failedReported,
                    exitCode >>

\* run lines 389-391: except Exception: log, return False
RunExceptSkipsCleanup ==
    /\ pc = "run_raised"
    /\ runResult' = "False"
    /\ svcLog' = <<>>
    /\ svcIdx' = 0
    /\ pc' = "run_return"
    /\ UNCHANGED << envVars, handleVars, loginVars, updVars, target_ip, calls,
                    ipRet, retries, success, url, fe, cleanLog,
                    failedReported, exitCode >>
RunExcept ==
    /\ pc = "run_raised"
    /\ runResult' = "False"
    /\ svcLog' = <<>>
    /\ svcIdx' = 0
    /\ pc' = "cleanup"
    /\ UNCHANGED << envVars, handleVars, loginVars, updVars, target_ip, calls,
                    ipRet, retries, success, url, fe, cleanLog,
                    failedReported, exitCode >>

\* ------------------------------------------------------------------------
\* cleanup (run line 393, lines 349-357)
\* ------------------------------------------------------------------------
\* one try block holds the three release steps: the first one that raises
\* ends cleanup through line 356
Release(step, ok) == [step |-> step, ok |-> ok]

\* line 352: await self.page.close() if self.page else None
CleanupPage ==
    /\ pc = "cleanup"
    /\ calls' = Append(calls, "cleanup")
    /\ IF page
       THEN \E ok \in BOOLEAN :
              /\ cleanLog' = Append(cleanLog, Release("page.close", ok))
              /\ pc' = IF ok THEN "cleanup_browser" ELSE "run_return"
       ELSE /\ pc' = "cleanup_browser"
            /\ cleanLog' = cleanLog
    /\ UNCHANGED << envVars, handleVars, ipVars, loginVars, updVars,
                    target_ip, retries, success, url, fe, runResult,
                    failedReported, exitCode >>

\* line 353: await self.browser.close() if self.browser else None
CleanupBrowser ==
    /\ pc = "cleanup_browser"
    /\ IF browser
       THEN \E ok \in BOOLEAN :
              /\ cleanLog' = Append(cleanLog, Release("browser.close", ok))
              /\ pc' = IF ok THEN "cleanup_engine" ELSE "run_return"
       ELSE /\ pc' = "cleanup_engine"
            /\ cleanLog' = cleanLog
    /\ UNCHANGED << envVars, handleVars, ipVars, loginVars, updVars,
                    target_ip, calls, retries, success, url, fe, runResult,
                    failedReported, exitCode >>

\* line 354: await self.playwright.stop() if hasattr(self, 'playwright')
CleanupEngineOnlyWithBrowser ==
    /\ pc = "cleanup_engine"
    /\ IF playwright /\ browser
       THEN \E ok \in BOOLEAN :
              cleanLog' = Append(cleanLog, Release("playwright.stop", ok))
       ELSE cleanLog' = cleanLog
    /\ pc' = "run_return"
    /\ UNCHANGED << envVars, handleVars, ipVars, loginVars, updVars,
                    target_ip, calls, retries, success, url, fe, runResult,
                    failedReported, exitCode >>
CleanupEngine ==
    /\ pc = "cleanup_engine"
    /\ IF playwright
       THEN \E ok \in BOOLEAN :
              cleanLog' = Append(cleanLog, Release("playwright.stop", ok))
       ELSE cleanLog' = cleanLog
    /\ pc' = "run_return"
    /\ UNCHANGED << envVars, handleVars, ipVars, loginVars, updVars,
                    target_ip, calls, retries, success, url, fe, runResult,
                    failedReported, exitCode >>

\* main lines 412-413: success = await updater.run(args.ip); sys.exit(..)
MainExit ==
    /\ pc = "run_return"
    /\ exitCode' = ExitCode(runResult)
    /\ pc' = "exited"
    /\ UNCHANGED << envVars, handleVars, ipVars, loginVars, updVars,
                    target_ip, calls, retries, success, url, fe, cleanLog,
                    runResult, failedReported >>

\* ------------------------------------------------------------------------
\* Properties
\* ------------------------------------------------------------------------
Range(seq) == { seq[i] : i \in 1..Len(seq) }
Last(seq) == seq[Len(seq)]
Attempted(step) == \E i \in 1..Len(cleanLog) : cleanLog[i].step = step
Failed(step) ==
    \E i \in 1..Len(cleanLog) : cleanLog[i].step = step /\ ~cleanLog[i].ok
RunEnded == pc \in {"run_return", "exited"} /\ runResult # "none"

\* C1: in every run login() is invoked at most 3 times, the first attempt
\* included; when every attempt fails, login() has been called exactly 3
\* times when run() reports "Login failed".
C1_LoginAtMostThreeTimes ==
    /\ Count(calls, "login") <= 3
    /\ failedReported => Count(calls, "login") = 3

\* C2: every run() executes cleanup() exactly once as its last step,
\* whichever way the run ends, and cleanup attempts the shutdown of the page,
\* of the browser context and of the automation engine for each of those
\* handles that exists.
C2_CleanupOnceReleasingEveryHandle ==
    RunEnded =>
        /\ Count(calls, "cleanup") = 1
        /\ Last(calls) = "cleanup"
        /\ page => Attempted("page.close")
        /\ browser => Attempted("browser.close")
        /\ playwright => Attempted("playwright.stop")

\* C3: the release steps of cleanup() are guarded individually: when closing
\* the page fails, closing the context and stopping the engine are still
\* attempted; when closing the context fails, stopping the engine is still
\* attempted.
C3_ReleaseStepsGuardedIndividually ==
    RunEnded =>
        /\ Failed("page.close") =>
              /\ browser => Attempted("browser.close")
              /\ playwright => Attempted("playwright.stop")
        /\ Failed("browser.close") =>
              (playwright => Attempted("playwright.stop"))

\* "login" occurs in u in some mix of upper and lower case
LoginWordUpper == <<"L","O","G","I","N">>
HasLoginAnyCase(u) ==
    \E i \in 1..(Len(u) - 4) :
        \A k \in 1..5 : u[i + k - 1] \in {LoginWord[k], LoginWordUpper[k]}

\* C4: in login(), when the page URL after navigating to the DNS settings
\* URL does not contain "login" in any case, the flow returns success at
\* once: no username fill, no password fill, no challenge wait and no submit
\* click happen in that attempt.
C4_AlreadyLoggedInDoesNothingElse ==
    ( /\ loginLog # <<>>
      /\ "click_submit" \notin Range(loginLog)
      /\ ~HasLoginAnyCase(url) )
    => /\ loginLog = <<"goto">>
       /\ loginRet = "True"
       /\ pc \notin {"login_wait_selector", "login_find_username"}

C4_Witness ==
    /\ pc = "login_ret"
    /\ loginLog = <<"goto">>
    /\ loginRet = "True"
    /\ ~HasLoginAnyCase(url)

\* C5: in update_dns_record, when the probe finds a table row or cell with
\* the target IP, the flow returns success and never looks up or clicks the
\* "configure by IP" control, never fills the IP input and never clicks a
\* submit control.
C5_ExistingRowMeansNoAction ==
    (\E i \in 1..Len(probe) : probe[i] = "record")
    => /\ updLog = <<"probe">>
       /\ updRet = "True"
       /\ pc = "update_ret"
       /\ fe = NoFind
       /\ filledIp = None

C5_Witness ==
    /\ pc = "update_ret"
    /\ probe \in { <<"record", "nothing">>, <<"timeout", "record">> }
    /\ updRet = "True"

\* C6: in update_dns_record, when no row or cell matches the target IP and
\* none of the "configure by IP" selectors matches, the flow returns failure
\* and performs no click, no fill of the IP input and no submit.
C6_NoConfigureControlMeansFailure ==
    ( /\ fe.sels = "configuration_by_ip_selectors"
      /\ \A i \in 1..fe.n : fe.scope[i] \in {"absent", "queryError"} )
    => /\ pc = "update_ret"
       /\ updRet = "False"
       /\ updLog = <<"probe", "find_configure">>
       /\ \A i \in 1..Len(probe) : probe[i] # "record"
       /\ filledIp = None

C6_Witness ==
    /\ pc = "update_ret"
    /\ updRet = "False"
    /\ fe.sels = "configuration_by_ip_selectors"
    /\ fe.scope = <<"absent", "queryError", "absent">>

\* the services asked so far that answered with HTTP status 200
AnsweredOk(i) == svcLog[i].kind = "response" /\ svcLog[i].status = 200

\* t is s without its leading and trailing whitespace
IsTrimOf(t, s) ==
    /\ \E a \in 0..Len(s) :
         /\ a + Len(t) <= Len(s)
         /\ \A i \in 1..Len(t) : t[i] = s[a + i]
         /\ \A i \in 1..a : s[i] \in Whitespace
         /\ \A i \in (a + Len(t) + 1)..Len(s) : s[i] \in Whitespace
    /\ t # <<>> => (t[1] \notin Whitespace /\ t[Len(t)] \notin Whitespace)

\* C7: get_current_ip() asks the services in their fixed order and returns
\* the whitespace-trimmed body of the first one that answers with status 200,
\* without contacting any later service; it raises only when every service of
\* the list failed, timed out or answered with another status.
C7_FirstOkServiceTrimmed ==
    /\ \A i \in 1..(Len(svcLog) - 1) : ~AnsweredOk(i)
    /\ Len(svcLog) <= NumServices
    /\ pc = "get_ip_return" =>
          /\ svcLog # <<>>
          /\ AnsweredOk(Len(svcLog))
          /\ IsTrimOf(ipRet, Last(svcLog).body)
    /\ (pc = "run_raised" /\ Last(calls) = "get_current_ip") =>
          /\ Len(svcLog) = NumServices
          /\ \A i \in 1..NumServices : ~AnsweredOk(i)
    /\ (pc = "get_ip" /\ svcLog # <<>>) => ~AnsweredOk(Len(svcLog))

C7_Witness ==
    /\ pc = "get_ip_return"
    /\ Len(svcLog) = 2
    /\ svcLog[1].kind = "RequestException"
    /\ svcLog[2].body = <<"1", "\n">>
    /\ ipRet = <<"1">>

\* selectors of the last find_element call that match an element of the scope
Matching == { i \in 1..fe.n : fe.scope[i] \in {"element", "focusError"} }
\* ... and whose element passed line 155 without an exception
Usable == { i \in 1..fe.n : fe.scope[i] = "element" }

\* C8 (as stated): find_element returns the element of the first selector in
\* list order that matches an element in the scope, and None exactly when no
\* selector of the list matches anything in the scope.
C8_FirstMatchingSelector ==
    fe # NoFind =>
        IF Matching = {} THEN fe.result = 0
        ELSE fe.result \in Matching /\ \A j \in Matching : fe.result <= j

\* C8 (amended): find_element returns the element of the first selector in
\* list order whose query returned an element and whose input check and
\* focus (line 155) raised nothing, and None exactly when the list has no
\* such selector; it never raises to its caller.
C8_FirstUsableSelector ==
    fe # NoFind =>
        IF Usable = {} THEN fe.result = 0
        ELSE fe.result \in Usable /\ \A j \in Usable : fe.result <= j

C8_Witness ==
    /\ fe.sels = "PASSWORD_SELECTORS"
    /\ fe.scope = <<"focusError", "element", "element">>
    /\ fe.result = 2

\* C9: the steps of run() occur in a fixed order: the target IP is determined
\* before the browser session is opened, the session is opened before the
\* first login attempt, update_dns_record is invoked only after a login
\* attempt returned success; when every login attempt failed,
\* update_dns_record is never invoked and run() returns failure.
C9_FixedOrderOfSteps ==
    /\ \A i \in 1..Len(calls) :
         /\ calls[i] = "get_current_ip" => i = 1
         /\ calls[i] = "init_browser" =>
               /\ target_ip # None
               /\ \A j \in 1..Len(calls) : calls[j] = "login" => i < j
         /\ calls[i] = "login" =>
               /\ "init_browser" \in Range(calls)
               /\ playwright /\ browser /\ page
         /\ calls[i] = "update_dns_record" =>
               /\ i > 1
               /\ calls[i - 1] = "login"
               /\ loginRet = "True"
    /\ (RunEnded /\ "login" \in Range(calls) /\ loginRet = "False") =>
          /\ "update_dns_record" \notin Range(calls)
          /\ runResult = "False"

C9_Witness ==
    /\ pc = "exited"
    /\ calls = <<"get_current_ip", "init_browser", "login", "login",
                 "update_dns_record", "cleanup">>

\* C10 (as stated): the process exit code is 0 exactly when run() returned
\* success, and 1 in every other case.
C10_ExitZeroIffRunSucceeded ==
    pc = "exited" =>
        /\ exitCode = 0 <=> runResult = "True"
        /\ exitCode # 0 => exitCode = 1

\* C10 (amended): once the command line is accepted by the argument parser,
\* the exit code is 0 exactly when run() returned success (login succeeded
\* and the update flow returned success) and 1 in every other case: login
\* failure, update failure, an exception caught inside run(), a missing or
\* malformed configuration file. A rejected command line exits with 2 and
\* --help with 0, both before the configuration is read.
C10_ExitCodeOfAcceptedCommandLine ==
    pc = "exited" =>
        /\ cmdline.kind = "ok" =>
              /\ exitCode = 0 <=> runResult = "True"
              /\ exitCode # 0 => exitCode = 1
              /\ runResult = "True" <=> (loginRet = "True" /\ updRet = "True")
        /\ cmdline.kind = "error" => (exitCode = 2 /\ calls = <<>>)
        /\ cmdline.kind = "help" => (exitCode = 0 /\ calls = <<>>)

C10_Witness ==
    /\ pc = "exited"
    /\ cmdline.kind = "ok"
    /\ exitCode = 0
    /\ runResult = "True"
    /\ Last(calls) = "cleanup"

\* the page actions of an update_dns_record call that went through the
\* configure-by-IP form to the end
FullUpdateSequence ==
    << "probe", "find_configure", "click_configure", "found_ip_input",
       "fill_ip", "found_send", "click_submit", "settled" >>

\* valid configuration, --ip supplied, session already authenticated, no row
\* with the target IP, configure-by-IP control, IP input and submit control
\* all found
C11_Scenario ==
    /\ cmdline.kind = "ok"
    /\ cmdline.ip \in SuppliedIps
    /\ configFile = "full"
    /\ loginRet = "True"
    /\ loginLog = <<"goto">>
    /\ "found_send" \in Range(updLog)

InLogin(p) ==
    p \in { "login_idle", "login_creds", "login_goto", "login_wait_selector",
            "login_find_username", "login_fill_username",
            "login_find_password", "login_fill_password",
            "login_find_submit", "login_pre_idle", "login_pre_delay",
            "login_poll", "login_click", "login_wait_navigation",
            "login_check_status", "login_goto_back" }
InUpdate(p) ==
    p \in { "update_prepare", "update_probe", "update_find_configure",
            "update_click_configure", "update_find_ip", "update_fill_ip",
            "update_find_send", "update_click_send" }

\* C12: login() and update_dns_record() never raise to run(): every missing
\* element, wait timeout or other exception inside them ends the flow with a
\* returned False, so a failed login attempt leaves the remaining retries
\* available and the run never reaches run()'s exception handler from them.
C12_FlowsReturnInsteadOfRaising ==
    [][ /\ InLogin(pc) =>
              \/ InLogin(pc')
              \/ pc' = "login_ret" /\ loginRet' \in {"True", "False"}
        /\ InUpdate(pc) =>
              \/ InUpdate(pc')
              \/ pc' = "update_ret" /\ updRet' \in {"True", "False"}
        /\ pc' = "run_raised" =>
              /\ "login" \notin Range(calls')
              /\ "update_dns_record" \notin Range(calls')
        /\ (pc = "login_ret" /\ loginRet = "False" /\ retries < attempts) =>
              (pc' = "login_call" /\ retries' = retries + 1)
      ]_vars

\* a login attempt ended by a raising wait or navigation, a retry follows
C12_Witness ==
    /\ pc = "login_call"
    /\ configFile = "full"
    /\ retries = 1
    /\ loginRet = "False"
    /\ loginLog = <<>>

\* C13: in a login attempt that reached the login page and located the
\* username, password and submit controls, the order is network-idle wait,
\* fixed delay, challenge poll, submit click; the poll ends within its time
\* bound (at most one sleep after the deadline), and the submit control is
\* clicked whether the poll returned True or reached the bound.
C13_PollThenSubmit ==
    /\ "click_submit" \in Range(loginLog) =>
          SubSeq(loginLog, 1, 7) =
              << "goto", "fill_username", "fill_password", "network_idle",
                 "delay", "poll", "click_submit" >>
    /\ pc = "login_click" =>
          /\ loginLog = << "goto", "fill_username", "fill_password",
                           "network_idle", "delay", "poll" >>
          /\ pollRet \in {"True", "False"}
          /\ pollRet = "False" =>
                pollElapsed >= RecaptchaDefaultTimeout * TicksPerSecond
    /\ pollElapsed <= RecaptchaDefaultTimeout * TicksPerSecond + TicksPerSecond - 1
    /\ pc = "login_poll" =>
          loginLog = << "goto", "fill_username", "fill_password",
                        "network_idle", "delay" >>

\* the poll reached its bound and the submit control was clicked all the same
C13_Witness ==
    /\ pc = "login_wait_navigation"
    /\ pollRet = "False"
    /\ Last(loginLog) = "click_submit"

\* C14: only login is repeated within a run: the public-IP resolution, the
\* opening of the browser session and update_dns_record each happen at most
\* once, whatever their outcome.
C14_OnlyLoginIsRepeated ==
    /\ Count(calls, "get_current_ip") <= 1
    /\ Count(calls, "init_browser") <= 1
    /\ Count(calls, "update_dns_record") <= 1
    /\ Count(calls, "cleanup") <= 1

\* a run that repeated login, failed in update_dns_record and ended
C14_Witness ==
    /\ pc = "exited"
    /\ Count(calls, "login") = 3
    /\ Count(calls, "get_current_ip") = 1
    /\ Count(calls, "init_browser") = 1
    /\ Count(calls, "update_dns_record") = 1
    /\ updRet = "False"

\* C15 (as stated): after the submit click a login attempt ends
\* Authenticated exactly when the resulting URL does not contain "login".
C15_AuthenticatedIffUrlWithoutLogin ==
    ( /\ pc = "login_ret"
      /\ "click_submit" \in Range(loginLog)
      /\ "goto_settings" \notin Range(loginLog) )
    => (loginRet = "True" <=> ~HasLoginAnyCase(url))

\* C15 (amended): after the submit click and the wait for network idle,
\* check_login_status answers True exactly when the URL does not contain
\* "login" in any case; when the URL still contains "login" the attempt ends
\* Failed whether or not an error-message element is present; only after a
\* True answer does the flow navigate back to the DNS settings URL, and only
\* after that navigation does login return True. An attempt whose wait or
\* navigation raises ends Failed whatever the URL.
C15_StatusCheckDecidesByUrl ==
    [][ /\ pc = "login_check_status" =>
              IF HasLoginAnyCase(url)
              THEN /\ pc' = "login_ret"
                   /\ loginRet' = "False"
                   /\ loginLog' = loginLog
              ELSE pc' = "login_goto_back"
        /\ pc' = "login_goto_back" =>
              (pc = "login_check_status" /\ ~HasLoginAnyCase(url'))
        /\ ("goto_settings" \in Range(loginLog')
              /\ "goto_settings" \notin Range(loginLog)) =>
              (pc = "login_goto_back" /\ ~HasLoginAnyCase(url))
        /\ ( /\ pc' = "login_ret"
             /\ loginRet' = "True"
             /\ "click_submit" \in Range(loginLog') ) =>
              /\ pc = "login_goto_back"
              /\ Last(loginLog') = "goto_settings"
      ]_vars

\* still on the login page, no error-message element: Failed
C15_Witness ==
    /\ pc = "login_ret"
    /\ fe.sels = "ERROR_SELECTORS"
    /\ fe.result = 0
    /\ HasLoginAnyCase(url)
    /\ loginRet = "False"
    /\ Last(loginLog) = "click_submit"

NothingUsable == \A i \in 1..fe.n : fe.scope[i] # "element"

\* C16: update_dns_record returns success only when an existing row or cell
\* with the target IP was found, or when the whole sequence click
\* configure-by-IP control, fill the IP input with the target IP, click the
\* submit control was carried out in that order; with the IP input missing
\* it returns failure without fill and without submit, with the submit
\* control missing it returns failure without a submit click.
C16_SuccessOnlyByRowOrFullSequence ==
    /\ updRet = "True" =>
          \/ updLog = <<"probe">>
                /\ (pc = "update_ret" => \E i \in 1..Len(probe) : probe[i] = "record")
          \/ updLog = FullUpdateSequence /\ filledIp = target_ip
    /\ (fe.sels = "ip_input" /\ NothingUsable) =>
          /\ pc = "update_ret"
          /\ updRet = "False"
          /\ updLog = <<"probe", "find_configure", "click_configure">>
          /\ filledIp = None
    /\ (fe.sels = "send" /\ NothingUsable) =>
          /\ pc = "update_ret"
          /\ updRet = "False"
          /\ updLog = << "probe", "find_configure", "click_configure",
                         "found_ip_input", "fill_ip" >>

C16_Witness ==
    /\ pc = "update_ret"
    /\ fe.sels = "send"
    /\ fe.scope = <<"absent", "focusError">>
    /\ filledIp = target_ip
    /\ updRet = "False"

\* C17: when no target IP is supplied and public-IP resolution fails for
\* every service, the browser session is never opened, login and
\* update_dns_record are never invoked, run() returns failure to main and
\* cleanup() is still executed.
C17_ResolutionFailureIsFatal ==
    /\ (pc = "run_raised" /\ Last(calls) = "get_current_ip") =>
          /\ cmdline.ip = None
          /\ Len(svcLog) = NumServices
          /\ calls = <<"get_current_ip">>
    /\ ("get_current_ip" \in Range(calls) /\ target_ip = None) =>
          /\ ~playwright /\ ~browser /\ ~page
          /\ Range(calls) \subseteq {"get_current_ip", "cleanup"}
          /\ RunEnded =>
                /\ calls = <<"get_current_ip", "cleanup">>
                /\ runResult = "False"
                /\ cleanLog = <<>>
          /\ pc = "exited" => exitCode = 1

C17_Witness ==
    /\ pc = "exited"
    /\ cmdline.ip = None
    /\ calls = <<"get_current_ip", "cleanup">>
    /\ runResult = "False"
    /\ exitCode = 1

\* C18: the login loop stops at the first success: once a login() call has
\* returned success no further login() call is made, and the next flow step
\* is update_dns_record with the target IP determined at the start of the
\* run (the supplied IP when one was given, otherwise the resolved one),
\* unchanged.
C18_LoopStopsAtFirstSuccess ==
    [][ /\ (pc = "login_ret" /\ loginRet = "True") => pc' = "update_call"
        /\ pc = "update_call" =>
              /\ calls' = Append(calls, "update_dns_record")
              /\ target_ip =
                    IF cmdline.ip # None THEN cmdline.ip ELSE ipRet
        /\ (loginRet = "True" /\ ~InLogin(pc)) =>
              Count(calls', "login") = Count(calls, "login")
        /\ "init_browser" \in Range(calls) => target_ip' = target_ip
        /\ filledIp' # filledIp => filledIp' = target_ip
      ]_vars

\* the third login attempt succeeded, on a resolved IP
C18_Witness ==
    /\ pc = "update_call"
    /\ retries = 2
    /\ loginRet = "True"
    /\ cmdline.ip = None
    /\ target_ip = <<"1">>

\* C19: when init_browser() fails after the automation engine was started
\* and before a browser context or page exists, run() returns failure without
\* any login attempt, and cleanup() passes over the absent page and context
\* and calls the engine's stop().
C19_EngineStoppedAfterFailedLaunch ==
    (RunEnded /\ playwright /\ ~browser) =>
        /\ ~page
        /\ "login" \notin Range(calls)
        /\ runResult = "False"
        /\ Len(cleanLog) = 1
        /\ cleanLog[1].step = "playwright.stop"
        /\ pc = "exited" => exitCode = 1

C19_Witness ==
    /\ pc = "exited"
    /\ playwright /\ ~browser /\ ~page
    /\ cleanLog = <<Release("playwright.stop", TRUE)>>


Next ==
    \/ ParseArgs
    \/ Construct
    \/ RunStart
    \/ GetIpRequest
    \/ GetIpFail
    \/ RunReceiveIp
    \/ InitStartEngine
    \/ InitLaunchContext
    \/ InitPage
    \/ LoginCall
    \/ LoginWaitIdle
    \/ LoginCredentials
    \/ LoginGoto
    \/ LoginWaitSelector
    \/ LoginFindUsername
    \/ LoginFillUsername
    \/ LoginFindPassword
    \/ LoginFillPassword
    \/ LoginFindSubmit
    \/ LoginPreSubmitIdle
    \/ LoginPreSubmitDelay
    \/ PollIterate
    \/ PollTimeout
    \/ LoginClickSubmit
    \/ LoginWaitNavigation
    \/ LoginCheckStatus
    \/ LoginGotoBack
    \/ RunAfterLogin
    \/ UpdateCall
    \/ UpdatePrepare
    \/ UpdateProbe
    \/ UpdateFindConfigure
    \/ UpdateClickConfigure
    \/ UpdateFindIpInput
    \/ UpdateFillIp
    \/ UpdateFindSend
    \/ UpdateClickSend
    \/ RunAfterUpdate
    \/ RunExcept
    \/ CleanupPage
    \/ CleanupBrowser
    \/ CleanupEngine
    \/ MainExit

\* an upper bound on the number of steps a state is away from the end of
\* the process: the position in main() and run(), the login attempts still
\* allowed, the services still to ask, the time left to the poll
PollLeft == RecaptchaDefaultTimeout * TicksPerSecond + TicksPerSecond - pollElapsed
LoginStepsLeft ==
    CASE pc = "login_ret" -> 0
      [] pc = "login_goto_back" -> 1
      [] pc = "login_check_status" -> 2
      [] pc = "login_wait_navigation" -> 3
      [] pc = "login_click" -> 4
      [] pc = "login_poll" -> 5 + PollLeft
      [] pc = "login_pre_delay" -> 6 + PollLeft
      [] pc = "login_pre_idle" -> 7 + PollLeft
      [] pc = "login_find_submit" -> 8 + PollLeft
      [] pc = "login_fill_password" -> 9 + PollLeft
      [] pc = "login_find_password" -> 10 + PollLeft
      [] pc = "login_fill_username" -> 11 + PollLeft
      [] pc = "login_find_username" -> 12 + PollLeft
      [] pc = "login_wait_selector" -> 13 + PollLeft
      [] pc = "login_goto" -> 14 + PollLeft
      [] pc = "login_creds" -> 15 + PollLeft
      [] pc = "login_idle" -> 16 + PollLeft
      [] pc = "login_call" -> 17 + PollLeft
LoginSpan == 18 + RecaptchaDefaultTimeout * TicksPerSecond + TicksPerSecond
StepsLeft ==
    CASE pc = "exited" -> 0
      [] pc = "run_return" -> 1
      [] pc = "cleanup_engine" -> 2
      [] pc = "cleanup_browser" -> 3
      [] pc = "cleanup" -> 4
      [] pc \in {"run_raised", "update_ret"} -> 5
      [] pc = "update_click_send" -> 6
      [] pc = "update_find_send" -> 7
      [] pc = "update_fill_ip" -> 8
      [] pc = "update_find_ip" -> 9
      [] pc = "update_click_configure" -> 10
      [] pc = "update_find_configure" -> 11
      [] pc = "update_probe" -> 12
      [] pc = "update_prepare" -> 13
      [] pc = "update_call" -> 14
      [] pc = "login_call" \/ pc = "login_ret" \/ InLogin(pc) ->
             15 + (attempts - retries) * LoginSpan + LoginStepsLeft
      [] pc = "init_page" -> 16 + (attempts + 1) * LoginSpan
      [] pc = "init_launch" -> 17 + (attempts + 1) * LoginSpan
      [] pc = "init_browser" -> 18 + (attempts + 1) * LoginSpan
      [] pc = "get_ip_return" -> 19 + (attempts + 1) * LoginSpan
      [] pc = "get_ip" ->
             20 + (attempts + 1) * LoginSpan + (NumServices + 1 - svcIdx)
      [] pc = "run" -> 21 + (attempts + 1) * LoginSpan + NumServices
      [] pc = "construct" -> 22 + (attempts + 1) * LoginSpan + NumServices
      [] pc = "main" -> 23 + (attempts + 1) * LoginSpan + NumServices

\* C20: every run terminates: provided each single browser or HTTP operation
\* returns or times out, the process reaches its final result after a
\* bounded number of steps: until the process has exited a next step is
\* always possible, and every step lowers StepsLeft, which is never negative.
C20_EveryRunTerminates ==
    /\ [](pc # "exited" => ENABLED <<Next>>_vars)
    /\ [][StepsLeft' < StepsLeft /\ StepsLeft' >= 0]_vars

\* the longest run: four failed logins, one of them through the whole poll
C20_Witness ==
    /\ pc = "exited"
    /\ Count(calls, "login") = attempts + 1
    /\ pollRet = "False"
    /\ failedReported

Spec == Init /\ [][Next]_vars
====
